---- MODULE Spec2Model ----
(***************************************************************************)
(* Model of the Google Sheets adapter GSheetsAPI                           *)
(* (src/src/shillelagh/adapters/api/gsheets.py).                           *)
(*                                                                         *)
(* A string is a sequence of one-character strings, so that str.strip()    *)
(* is computed and not assumed.  Python's None (as a cell value) and a     *)
(* numeric cell value are the one-token sequences NoneV and NumV, which no *)
(* string equals.  A Row (a Python dict) is a function from keys to values;*)
(* the reserved key is ROWID.  The remote sheet is the sequence of its     *)
(* physical rows, each the sequence of its cell values.                     *)
(***************************************************************************)
EXTENDS Integers, Sequences, FiniteSets, TLC

VARIABLES
    probe,             \* the answer to the probe query of the constructor
    parsedNumHeaders,  \* remote: how many header rows the query endpoint detects
    sheet,             \* remote: the physical rows of the sheet, the first one first
    columns,           \* self.columns: the exposed labels, in dict order
    _column_map,       \* self._column_map: label -> provider column id
    _offset,           \* self._offset
    row_ids,           \* self.row_ids: identifier -> Row
    gen,               \* the generator object of the get_data call being consumed
    uri,               \* the spreadsheet URI the adapter is constructed on
    url,               \* self.url: the URL of the query endpoint
    _sheet_id,         \* self._sheet_id
    last               \* the last call: its arguments, requests and outcome

vars == <<probe, parsedNumHeaders, sheet, columns, _column_map, _offset,
          row_ids, gen, uri, url, _sheet_id, last>>

schema == <<probe, columns, _column_map, _offset>>
remote == <<parsedNumHeaders, sheet>>
address == <<uri, url, _sheet_id>>

\* ------------------------------------------------------------------ bounds

\* most rows the remote sheet holds below its first row
MaxRows == 2
\* largest row identifier a caller supplies or insert_data assigns
MaxId == 1

\* ------------------------------------------------------------------ values

ROWID == <<"rowid">>
NoneV == <<"None">>
NumV == <<"1.0">>
\* row["rowid"] = None
NoRowId == -1

EmptyStr == <<>>
LabelX == <<"x">>
LabelY == <<"y">>
\* a label that strip() changes
LabelXPadded == <<" ", "x">>
Blank == <<" ">>

\* provider column identifiers, in physical order
ColIds == << <<"A">>, <<"B">> >>
NCols == Len(ColIds)

\* the values of data cells
Values == { <<"a">>, <<"b">> }
Rank(v) == IF v = <<"a">> THEN 1 ELSE 2

Ids == 0..MaxId

Min(S) == CHOOSE m \in S : \A n \in S : m <= n
Max(S) == CHOOSE m \in S : \A n \in S : m >= n

IsStr(v) == v # NoneV /\ v # NumV

\* str.strip(): leading and trailing whitespace removed
RECURSIVE lstrip(_)
lstrip(s) == IF s # <<>> /\ Head(s) = " " THEN lstrip(Tail(s)) ELSE s
RECURSIVE rstrip(_)
rstrip(s) ==
    IF s # <<>> /\ s[Len(s)] = " " THEN rstrip(SubSeq(s, 1, Len(s) - 1)) ELSE s
strip(s) == rstrip(lstrip(s))

\* ---------------------------------------------------------- the provider

\* a cell of a query result: null, or an object holding the value v
NullCell == [null |-> TRUE, v |-> NoneV]
Cell(x) == [null |-> FALSE, v |-> x]

\* the filters of a get_data call: a Range on one column, or the Impossible
\* filter the engine passes when the bounds on a column contradict
Impossible == [type |-> "Impossible", lo |-> NoneV, hi |-> NoneV]
Range(lo, hi) == [type |-> "Range", lo |-> lo, hi |-> hi]
NoWhere == [col |-> EmptyStr, filter |-> Range(NoneV, NoneV)]

\* The query endpoint's answer to a query (not code of the adapter): the
\* columns with the labels of the detected header row, and the rows below
\* it that satisfy the WHERE clause, after OFFSET and within LIMIT.  limit = -1
\* means no LIMIT.
QueryCols(parsed, rows) ==
    [k \in 1..NCols |->
        [id |-> ColIds[k],
         label |-> IF parsed = 1 /\ rows # <<>> /\ k <= Len(rows[1])
                   THEN rows[1][k] ELSE EmptyStr]]

QueryCells(r) ==
    [c |-> [k \in 1..NCols |-> IF k <= Len(r) THEN Cell(r[k]) ELSE NullCell]]

ColIndex(id) == CHOOSE k \in 1..NCols : ColIds[k] = id

Matches(r, where) ==
    \/ where.col = EmptyStr
    \/ LET k == ColIndex(where.col)
       IN  /\ k <= Len(r)
           /\ r[k] \in Values
           /\ Rank(where.filter.lo) <= Rank(r[k])
           /\ Rank(r[k]) <= Rank(where.filter.hi)

RECURSIVE Filtered(_, _)
Filtered(rows, where) ==
    IF rows = <<>> THEN <<>>
    ELSE (IF Matches(Head(rows), where) THEN <<Head(rows)>> ELSE <<>>)
         \o Filtered(Tail(rows), where)

QueryRows(parsed, rows, sql) ==
    LET below == SubSeq(rows, parsed + 1, Len(rows))
        hit == Filtered(below, sql.where)
        skipped == SubSeq(hit, sql.offset + 1, Len(hit))
        n == IF sql.limit >= 0 /\ sql.limit < Len(skipped)
             THEN sql.limit ELSE Len(skipped)
    IN  [k \in 1..n |-> QueryCells(skipped[k])]

QueryTable(parsed, rows, sql) ==
    [cols |-> QueryCols(parsed, rows), rows |-> QueryRows(parsed, rows, sql)]

\* "SELECT * LIMIT 1"
ProbeSql == [where |-> NoWhere, offset |-> 0, limit |-> 1]

\* ------------------------------------------------------------- the schema

\* the labels after the fallbacks of _set_columns, before strip()
RawLabel(results, k) ==
    LET cols == results.cols
        rows == results.rows
    IN  IF \E j \in 1..Len(cols) : cols[j].label # EmptyStr THEN cols[k].label
        ELSE IF rows # <<>>
             THEN IF k <= Len(rows[1].c) THEN rows[1].c[k].v ELSE cols[k].label
             ELSE cols[k].id

\* the positions whose stripped label is not empty and not seen before
RECURSIVE KeptFrom(_, _)
KeptFrom(labels, k) ==
    IF k > Len(labels) THEN <<>>
    ELSE (IF labels[k] # EmptyStr /\ \A j \in 1..(k - 1) : labels[j] # labels[k]
          THEN <<labels[k]>> ELSE <<>>) \o KeptFrom(labels, k + 1)

\* self._offset is left at 0 when the first row supplies the labels
_set_columns_no_offset(results) ==
    LET cols == results.cols
        rows == results.rows
        allEmpty == \A k \in 1..Len(cols) : cols[k].label = EmptyStr
        useRow == allEmpty /\ rows # <<>>
        zipped == IF useRow THEN Min({Len(cols), Len(rows[1].c)}) ELSE 0
        typeError == \E k \in 1..zipped : rows[1].c[k].null
        attrError == \E k \in 1..Len(cols) : ~IsStr(RawLabel(results, k))
        labels == [k \in 1..Len(cols) |-> RawLabel(results, k)]
        stripped == [k \in 1..Len(cols) |-> strip(labels[k])]
        keys == {stripped[k] : k \in 1..Len(cols)}
    IN  IF typeError \/ attrError
        THEN [error |-> IF typeError THEN "TypeError" ELSE "AttributeError",
              _offset |-> 0,
              labels |-> <<>>, _column_map |-> <<>>, columns |-> <<>>]
        ELSE [error |-> "",
              _offset |-> 0,
              labels |-> labels,
              _column_map |->
                  [l \in keys |->
                      cols[Max({k \in 1..Len(cols) : stripped[k] = l})].id],
              columns |-> KeptFrom(stripped, 1)]

_set_columns(results) ==
    LET cols == results.cols
        rows == results.rows
        allEmpty == \A k \in 1..Len(cols) : cols[k].label = EmptyStr
        useRow == allEmpty /\ rows # <<>>
        zipped == IF useRow THEN Min({Len(cols), Len(rows[1].c)}) ELSE 0
        \* cell["v"] of a null cell: TypeError
        typeError == \E k \in 1..zipped : rows[1].c[k].null
        \* .strip() of a label that is no string: AttributeError
        attrError == \E k \in 1..Len(cols) : ~IsStr(RawLabel(results, k))
        labels == [k \in 1..Len(cols) |-> RawLabel(results, k)]
        stripped == [k \in 1..Len(cols) |-> strip(labels[k])]
        keys == {stripped[k] : k \in 1..Len(cols)}
    IN  IF typeError \/ attrError
        THEN [error |-> IF typeError THEN "TypeError" ELSE "AttributeError",
              _offset |-> IF useRow THEN 1 ELSE 0,
              labels |-> <<>>, _column_map |-> <<>>, columns |-> <<>>]
        ELSE [error |-> "",
              _offset |-> IF useRow THEN 1 ELSE 0,
              labels |-> labels,
              _column_map |->
                  [l \in keys |->
                      cols[Max({k \in 1..Len(cols) : stripped[k] = l})].id],
              columns |-> KeptFrom(stripped, 1)]

\* ------------------------------------------------------------------ rows

\* the data rows an editor of the sheet or a caller writes
DataRows == { << <<"a">>, <<"b">> >>, << <<"b">>, <<"a">> >> }

NoRow == <<>>

\* a Row: the dict from the labels cols to cells, position by position
RowOf(cols, cells) ==
    [l \in {cols[k] : k \in 1..Len(cols)} |->
        cells[CHOOSE k \in 1..Len(cols) : cols[k] = l]]

\* row["rowid"] = id
WithRowId(row, id) ==
    [key \in DOMAIN row \cup {ROWID} |-> IF key = ROWID THEN id ELSE row[key]]

\* the dict left by row.pop("rowid")
Popped(row) == [key \in DOMAIN row \ {ROWID} |-> row[key]]

\* [row[column] for column in self.columns]
ValuesOf(cols, row) == [k \in 1..Len(cols) |-> row[cols[k]]]

\* the rows a caller passes: every column of the schema, and the key rowid
CallerRows(cols, ids) ==
    {WithRowId(RowOf(cols, SubSeq(r, 1, Len(cols))), id) : r \in DataRows, id \in ids}

\* self.row_ids[key] = row
Put(ids, key, row) ==
    [k \in DOMAIN ids \cup {key} |-> IF k = key THEN row ELSE ids[k]]

\* del self.row_ids[key]
Del(ids, key) == [k \in DOMAIN ids \ {key} |-> ids[k]]

\* ------------------------------------------------- the remote's mutations

\* values:append adds the values as a new last row
AppendRow(raw, values) == Append(raw, values)

\* values PUT at A{n+1}: the leading cells of physical row n are overwritten
UpdateRow(raw, n, values) ==
    [raw EXCEPT ![n + 1] = values \o SubSeq(@, Len(values) + 1, Len(@))]

\* deleteDimension ROWS [n, n+1)
DeleteRow(raw, n) == SubSeq(raw, 1, n) \o SubSeq(raw, n + 2, Len(raw))

InsertRowAt(raw, pos, r) ==
    SubSeq(raw, 1, pos - 1) \o <<r>> \o SubSeq(raw, pos, Len(raw))

\* the requests of the adapter
GetQuery == "GET gviz/tq"
GetValues == "GET values"
PostAppend == "POST values:append"
PutValues == "PUT values"
PostBatchUpdate == "POST batchUpdate"

\* -------------------------------------------------------------- get_data

\* build_sql of shillelagh.lib: the query for the bounds, or the
\* ImpossibleFilterError signal when a filter is the Impossible one
build_sql(cols, bounds, column_map, offset) ==
    IF \E k \in 1..Len(bounds) : bounds[k].filter.type = "Impossible"
    THEN [impossible |-> TRUE,
          sql |-> [where |-> NoWhere, offset |-> offset, limit |-> -1]]
    ELSE [impossible |-> FALSE,
          sql |-> [where |-> IF bounds = <<>> THEN NoWhere
                             ELSE [col |-> column_map[bounds[1].col],
                                   filter |-> bounds[1].filter],
                   offset |-> offset, limit |-> -1]]

\* the bounds a caller passes: none, or one filter on the first column
Bounds(cols) ==
    {<<>>} \cup
    {<<[col |-> cols[1], filter |-> f]>> :
        f \in {Impossible} \cup {Range(v, v) : v \in Values}}

\* {column_name: cell["v"] if cell else None for ... in zip(self.columns, row["c"])}
RowFromCells(cols, c) ==
    LET n == Min({Len(cols), Len(c)})
    IN  RowOf(SubSeq(cols, 1, n),
              [k \in 1..n |-> IF c[k].null THEN NoneV ELSE c[k].v])

\* enumerate(rows, start=1)
EnumIndex_from_one(k) == k

\* the identifier enumerate() gives the k-th row of the list (k from 1)
EnumIndex(k) == k - 1

\* the loop body: self.row_ids[i] = row; row["rowid"] = i (the same dict)
Register(ids, i, row) == Put(ids, i, WithRowId(row, i))

NoGen == [active |-> FALSE, rows |-> <<>>, taken |-> 0, registered |-> {}]

\* the generator runs from position `taken` of its rows to its next yield
GenStep(g, ids) ==
    IF g.taken < Len(g.rows)
    THEN LET k == g.taken + 1
             i == EnumIndex(k)
         IN  [gen |-> [g EXCEPT !.active = TRUE, !.taken = k,
                                !.registered = @ \cup {i}],
              row_ids |-> Register(ids, i, g.rows[k]),
              yielded |-> WithRowId(g.rows[k], i)]
    ELSE [gen |-> NoGen, row_ids |-> ids, yielded |-> NoRow]

\* the ImpossibleFilterError is swallowed and the query is run all the same
get_data_run_queries(cols, column_map, offset, parsed, raw, ids, bounds, err) ==
    LET built == build_sql(cols, bounds, column_map, offset)
        table == QueryTable(parsed, raw, built.sql)
        rows == [k \in 1..Len(table.rows) |-> RowFromCells(cols, table.rows[k].c)]
        step == GenStep([NoGen EXCEPT !.rows = rows], ids)
    IN  IF err
        THEN [error |-> "query error", reqs |-> <<GetQuery>>, gen |-> NoGen,
              row_ids |-> ids, yielded |-> NoRow]
        ELSE [error |-> "", reqs |-> <<GetQuery>>, gen |-> step.gen,
              row_ids |-> step.row_ids, yielded |-> step.yielded]

\* get_data up to its first yield, its return or its raise
get_data_run(cols, column_map, offset, parsed, raw, ids, bounds, err) ==
    LET built == build_sql(cols, bounds, column_map, offset)
        table == QueryTable(parsed, raw, built.sql)
        rows == [k \in 1..Len(table.rows) |-> RowFromCells(cols, table.rows[k].c)]
        step == GenStep([NoGen EXCEPT !.rows = rows], ids)
    IN  IF built.impossible
        THEN [error |-> "", reqs |-> <<>>, gen |-> NoGen, row_ids |-> ids,
              yielded |-> NoRow]
        ELSE IF err
        THEN [error |-> "query error", reqs |-> <<GetQuery>>, gen |-> NoGen,
              row_ids |-> ids, yielded |-> NoRow]
        ELSE [error |-> "", reqs |-> <<GetQuery>>, gen |-> step.gen,
              row_ids |-> step.row_ids, yielded |-> step.yielded]

\* ------------------------------------------------------------ mutations

Req(name, err) == [req |-> name, error |-> err]

\* len(self.row_ids)
NextRowId_len(ids) == Cardinality(DOMAIN ids)

\* max(self.row_ids.keys()) + 1 if self.row_ids else 0
NextRowId(ids) == IF DOMAIN ids # {} THEN Max(DOMAIN ids) + 1 ELSE 0

\* the identifier insert_data registers the row under
InsertRowId(ids, row) ==
    IF row[ROWID] = NoRowId THEN NextRowId(ids) ELSE row[ROWID]

\* a call that raises: self.row_ids and the remote sheet are as given
Raised(error, reqs, ids, raw, row_id, row_number) ==
    [error |-> error, reqs |-> reqs, row_ids |-> ids, sheet |-> raw,
     row_id |-> row_id, row_number |-> row_number, returned |-> NoRowId]

\* the entry is rolled back when the append fails
insert_data_rollback(ids, raw, cols, row, err) ==
    LET row_id == IF row[ROWID] = NoRowId
                  THEN (IF DOMAIN ids # {} THEN Max(DOMAIN ids) + 1 ELSE 0)
                  ELSE row[ROWID]
        popped == Popped(row)
    IN  [error |-> IF err THEN "append error" ELSE "",
         reqs |-> <<[req |-> PostAppend, error |-> err]>>,
         row_ids |-> IF err THEN ids ELSE Put(ids, row_id, popped),
         sheet |-> IF err THEN raw ELSE AppendRow(raw, ValuesOf(cols, popped)),
         row_id |-> row_id,
         row_number |-> -1,
         returned |-> IF err THEN NoRowId ELSE row_id]

\* the outcome of a mutation: the error raised ("" when it returns), the
\* requests issued, self.row_ids and the remote sheet afterwards, the
\* identifier, the row number located and the value returned
insert_data(ids, raw, cols, row, err) ==
    LET row_id == InsertRowId(ids, row)
        popped == Popped(row)
    IN  [error |-> IF err THEN "append error" ELSE "",
         reqs |-> <<Req(PostAppend, err)>>,
         row_ids |-> Put(ids, row_id, popped),
         sheet |-> IF err THEN raw ELSE AppendRow(raw, ValuesOf(cols, popped)),
         row_id |-> row_id,
         row_number |-> -1,
         returned |-> IF err THEN NoRowId ELSE row_id]

\* the last match wins
_find_row_number_last(row, cols, raw, err) ==
    LET values == ValuesOf(cols, row)
        hits == {k \in 1..Len(raw) : raw[k] = values}
    IN  IF err THEN [error |-> "values error", row_number |-> -1]
        ELSE IF hits = {} THEN [error |-> "Could not find row", row_number |-> -1]
        ELSE [error |-> "", row_number |-> Max(hits) - 1]

\* the loop falls through to row 0 instead of raising
_find_row_number_default(row, cols, raw, err) ==
    LET values == ValuesOf(cols, row)
        hits == {k \in 1..Len(raw) : raw[k] = values}
    IN  IF err THEN [error |-> "values error", row_number |-> -1]
        ELSE IF hits = {} THEN [error |-> "", row_number |-> 0]
        ELSE [error |-> "", row_number |-> Min(hits) - 1]

\* the 0-indexed number of the first raw row equal to the row's values
_find_row_number(row, cols, raw, err) ==
    LET values == ValuesOf(cols, row)
        hits == {k \in 1..Len(raw) : raw[k] = values}
    IN  IF err THEN [error |-> "values error", row_number |-> -1]
        ELSE IF hits = {} THEN [error |-> "Could not find row", row_number |-> -1]
        ELSE [error |-> "", row_number |-> Min(hits) - 1]

\* the entry is deleted before the response is looked at
delete_located_eager(ids, raw, row_id, row_number, get, errPost) ==
    IF errPost
    THEN Raised("batchUpdate error", <<get, Req(PostBatchUpdate, TRUE)>>,
                Del(ids, row_id), raw, row_id, row_number)
    ELSE [error |-> "",
          reqs |-> <<get, Req(PostBatchUpdate, FALSE)>>,
          row_ids |-> Del(ids, row_id),
          sheet |-> DeleteRow(raw, row_number),
          row_id |-> row_id,
          row_number |-> row_number,
          returned |-> NoRowId]

\* delete_data once the row is located: the batchUpdate request, and the
\* entry deleted only when it reports no error
delete_located(ids, raw, row_id, row_number, get, errPost) ==
    IF errPost
    THEN Raised("batchUpdate error", <<get, Req(PostBatchUpdate, TRUE)>>,
                ids, raw, row_id, row_number)
    ELSE [error |-> "",
          reqs |-> <<get, Req(PostBatchUpdate, FALSE)>>,
          row_ids |-> Del(ids, row_id),
          sheet |-> DeleteRow(raw, row_number),
          row_id |-> row_id,
          row_number |-> row_number,
          returned |-> NoRowId]

\* the row is located in values kept from an earlier call: no values GET
delete_data_no_fetch(ids, raw, cols, row_id, errGet, errPost) ==
    IF row_id \notin DOMAIN ids
    THEN [error |-> "Invalid row to delete", reqs |-> <<>>, row_ids |-> ids,
          sheet |-> raw, row_id |-> row_id, row_number |-> -1,
          returned |-> NoRowId]
    ELSE LET values == [k \in 1..Len(cols) |-> ids[row_id][cols[k]]]
             hits == {k \in 1..Len(raw) : raw[k] = values}
             n == IF hits = {} THEN -1 ELSE Min(hits) - 1
             ok == hits # {} /\ ~errPost
         IN  [error |-> IF hits = {} THEN "Could not find row"
                        ELSE IF errPost THEN "batchUpdate error" ELSE "",
              reqs |-> IF hits = {} THEN <<>>
                       ELSE <<[req |-> PostBatchUpdate, error |-> errPost]>>,
              row_ids |-> IF ok THEN Del(ids, row_id) ELSE ids,
              sheet |-> IF ok THEN DeleteRow(raw, n) ELSE raw,
              row_id |-> row_id,
              row_number |-> n,
              returned |-> NoRowId]

delete_data(ids, raw, cols, row_id, errGet, errPost) ==
    IF row_id \notin DOMAIN ids
    THEN Raised("Invalid row to delete", <<>>, ids, raw, row_id, -1)
    ELSE LET found == _find_row_number(ids[row_id], cols, raw, errGet)
             get == Req(GetValues, errGet)
         IN  IF found.error # ""
             THEN Raised(found.error, <<get>>, ids, raw, row_id, -1)
             ELSE delete_located(ids, raw, row_id, found.row_number, get, errPost)

\* the old key is kept
Migrate_keeps_old(ids, row_id, row) == Put(ids, row[ROWID], Popped(row))

\* the row_id might change on an update: the key moves when the payload
\* names another identifier
Migrate(ids, row_id, row) ==
    LET new_row_id == row[ROWID]
        kept == IF new_row_id # row_id THEN Del(ids, row_id) ELSE ids
    IN  Put(kept, new_row_id, Popped(row))

\* the map is migrated before the response of the PUT is looked at
update_located_eager(ids, raw, cols, row_id, row, row_number, get, errPut) ==
    IF errPut
    THEN [error |-> "update error",
          reqs |-> <<get, [req |-> PutValues, error |-> TRUE]>>,
          row_ids |-> Migrate(ids, row_id, row),
          sheet |-> raw,
          row_id |-> row_id,
          row_number |-> row_number,
          returned |-> NoRowId]
    ELSE [error |-> "",
          reqs |-> <<get, [req |-> PutValues, error |-> FALSE]>>,
          row_ids |-> Migrate(ids, row_id, row),
          sheet |-> UpdateRow(raw, row_number, ValuesOf(cols, row)),
          row_id |-> row_id,
          row_number |-> row_number,
          returned |-> NoRowId]

\* update_data once the row is located: the values PUT, then the map
update_located(ids, raw, cols, row_id, row, row_number, get, errPut) ==
    IF errPut
    THEN Raised("update error", <<get, Req(PutValues, TRUE)>>,
                ids, raw, row_id, row_number)
    ELSE [error |-> "",
          reqs |-> <<get, Req(PutValues, FALSE)>>,
          row_ids |-> Migrate(ids, row_id, row),
          sheet |-> UpdateRow(raw, row_number, ValuesOf(cols, row)),
          row_id |-> row_id,
          row_number |-> row_number,
          returned |-> NoRowId]

\* the identifier is looked up only after the values GET
update_data_late_check(ids, raw, cols, row_id, row, errGet, errPut) ==
    LET get == Req(GetValues, errGet)
    IN  IF row_id \notin DOMAIN ids
        THEN Raised("Invalid row to update", <<get>>, ids, raw, row_id, -1)
        ELSE LET found == _find_row_number(ids[row_id], cols, raw, errGet)
             IN  IF found.error # ""
                 THEN Raised(found.error, <<get>>, ids, raw, row_id, -1)
                 ELSE update_located(ids, raw, cols, row_id, row,
                                     found.row_number, get, errPut)

update_data(ids, raw, cols, row_id, row, errGet, errPut) ==
    IF row_id \notin DOMAIN ids
    THEN Raised("Invalid row to update", <<>>, ids, raw, row_id, -1)
    ELSE LET found == _find_row_number(ids[row_id], cols, raw, errGet)
             get == Req(GetValues, errGet)
         IN  IF found.error # ""
             THEN Raised(found.error, <<get>>, ids, raw, row_id, -1)
             ELSE update_located(ids, raw, cols, row_id, row, found.row_number,
                                 get, errPut)

\* ------------------------------------------------------------ addressing

\* A spreadsheet URI as urllib.parse.urlparse and parse_qs split it: the path
\* (its "/" and its segments), the key/value pairs of the query string in
\* order, and the fragment.  Numbers are decimal strings until int() parses
\* them.
Slash == "/"
EditSeg == "edit"
GvizTq == <<"gviz", Slash, "tq">>

KeyHeaders == "headers"
KeyGid == "gid"
KeySheet == "sheet"
\* "gid="
GidPrefix == <<"g", "i", "d", "=">>

\* sheet: Optional[str] = None
NoSheet == <<"None">>

DigitChars == <<"0", "1", "2", "3", "4", "5", "6", "7", "8", "9">>
IsDigit(c) == \E i \in 1..Len(DigitChars) : DigitChars[i] = c
DigitVal(c) == (CHOOSE i \in 1..Len(DigitChars) : DigitChars[i] = c) - 1

\* int(s) accepts a non-empty string of decimal digits, and raises ValueError
\* on the other strings here
IsInt(s) == s # <<>> /\ \A i \in 1..Len(s) : IsDigit(s[i])
RECURSIVE int(_)
int(s) ==
    IF s = <<>> THEN 0
    ELSE 10 * int(SubSeq(s, 1, Len(s) - 1)) + DigitVal(s[Len(s)])

\* str(n) of a natural number
RECURSIVE str(_)
str(n) ==
    IF n < 10 THEN <<DigitChars[n + 1]>>
    ELSE str(n \div 10) \o <<DigitChars[(n % 10) + 1]>>

\* s.startswith(prefix), s.endswith(suffix)
startswith(s, prefix) ==
    Len(s) >= Len(prefix) /\ SubSeq(s, 1, Len(prefix)) = prefix
endswith(s, suffix) ==
    Len(s) >= Len(suffix) /\ SubSeq(s, Len(s) - Len(suffix) + 1, Len(s)) = suffix

\* path.rstrip("/")
RECURSIVE rstrip_slash(_)
rstrip_slash(path) ==
    IF path # <<>> /\ path[Len(path)] = Slash
    THEN rstrip_slash(SubSeq(path, 1, Len(path) - 1)) ELSE path

\* urllib.parse.quote_plus of a value: a space becomes "+"
quote_plus(s) == [i \in 1..Len(s) |-> IF s[i] = " " THEN "+" ELSE s[i]]

\* parse_qs: the values of a key, in order; blank values are dropped
RECURSIVE qs_values(_, _)
qs_values(query, key) ==
    IF query = <<>> THEN <<>>
    ELSE (IF Head(query).key = key /\ Head(query).value # <<>>
          THEN <<Head(query).value>> ELSE <<>>) \o qs_values(Tail(query), key)

\* key in qs; qs[key][-1]
InQs(query, key) == qs_values(query, key) # <<>>
QsLast(query, key) == qs_values(query, key)[Len(qs_values(query, key))]

NoUrl == [error |-> "", path |-> <<>>, params |-> <<>>, fragment |-> <<>>]

\* get_url where the gid of the query string is not overridden by the fragment
get_url_query_gid_first(u, headers, gid, sheet_name) ==
    LET path == IF endswith(u.path, <<Slash, EditSeg>>)
                THEN SubSeq(u.path, 1, Len(u.path) - 2) ELSE u.path
        gviz == rstrip_slash(path) \o <<Slash>> \o GvizTq
        qs(key) == InQs(u.query, key)
        badInt == \/ qs(KeyHeaders) /\ ~IsInt(QsLast(u.query, KeyHeaders))
                  \/ qs(KeyGid) /\ ~IsInt(QsLast(u.query, KeyGid))
        headers1 == IF qs(KeyHeaders) THEN int(QsLast(u.query, KeyHeaders))
                    ELSE headers
        gid1 == IF qs(KeyGid) THEN int(QsLast(u.query, KeyGid))
                ELSE IF startswith(u.fragment, GidPrefix)
                     THEN int(SubSeq(u.fragment, Len(GidPrefix) + 1, Len(u.fragment)))
                     ELSE gid
        sheet1 == IF qs(KeySheet) THEN QsLast(u.query, KeySheet) ELSE sheet_name
    IN  IF badInt
        THEN [NoUrl EXCEPT !.error = "ValueError"]
        ELSE [error |-> "",
              path |-> gviz,
              params |->
                  (IF headers1 > 0
                   THEN <<[key |-> KeyHeaders, value |-> str(headers1)]>>
                   ELSE <<>>)
                  \o (IF sheet1 # NoSheet
                      THEN <<[key |-> KeySheet, value |-> quote_plus(sheet1)]>>
                      ELSE <<[key |-> KeyGid, value |-> str(gid1)]>>),
              fragment |-> <<>>]

\* get_url(uri, headers, gid, sheet): the URL of the query endpoint, or the
\* ValueError int() raises
get_url(u, headers, gid, sheet_name) ==
    LET \* strip /edit
        path == IF endswith(u.path, <<Slash, EditSeg>>)
                THEN SubSeq(u.path, 1, Len(u.path) - 2) ELSE u.path
        \* add the gviz endpoint
        gviz == rstrip_slash(path) \o <<Slash>> \o GvizTq
        qs(key) == InQs(u.query, key)
        fragGid == startswith(u.fragment, GidPrefix)
        fragNum == SubSeq(u.fragment, Len(GidPrefix) + 1, Len(u.fragment))
        badInt == \/ qs(KeyHeaders) /\ ~IsInt(QsLast(u.query, KeyHeaders))
                  \/ qs(KeyGid) /\ ~IsInt(QsLast(u.query, KeyGid))
                  \/ fragGid /\ ~IsInt(fragNum)
        headers1 == IF qs(KeyHeaders) THEN int(QsLast(u.query, KeyHeaders))
                    ELSE headers
        gid1 == IF fragGid THEN int(fragNum)
                ELSE IF qs(KeyGid) THEN int(QsLast(u.query, KeyGid)) ELSE gid
        sheet1 == IF qs(KeySheet) THEN QsLast(u.query, KeySheet) ELSE sheet_name
    IN  IF badInt
        THEN [NoUrl EXCEPT !.error = "ValueError"]
        ELSE [error |-> "",
              path |-> gviz,
              params |->
                  (IF headers1 > 0
                   THEN <<[key |-> KeyHeaders, value |-> str(headers1)]>>
                   ELSE <<>>)
                  \o (IF sheet1 # NoSheet
                      THEN <<[key |-> KeySheet, value |-> quote_plus(sheet1)]>>
                      ELSE <<[key |-> KeyGid, value |-> str(gid1)]>>),
              fragment |-> <<>>]

\* self._sheet_id is None until _set_metadata stores it
NoSheetId == -1

\* _set_metadata(uri): the sheet id stored in self._sheet_id, or the
\* ValueError int() raises
_set_metadata(u) ==
    LET fragGid == startswith(u.fragment, GidPrefix)
        fragNum == SubSeq(u.fragment, Len(GidPrefix) + 1, Len(u.fragment))
    IN  IF InQs(u.query, KeyGid)
        THEN IF IsInt(QsLast(u.query, KeyGid))
             THEN [error |-> "", _sheet_id |-> int(QsLast(u.query, KeyGid))]
             ELSE [error |-> "ValueError", _sheet_id |-> NoSheetId]
        ELSE IF fragGid
        THEN IF IsInt(fragNum)
             THEN [error |-> "", _sheet_id |-> int(fragNum)]
             ELSE [error |-> "ValueError", _sheet_id |-> NoSheetId]
        ELSE [error |-> "", _sheet_id |-> 0]

\* --------------------------------------------------------------- the calls

\* what a call remembers of the call made right before it
NoBefore ==
    [op |-> "none", error |-> "", returned |-> -1, row |-> <<>>,
     pre_row_ids |-> <<>>, pre_sheet |-> <<>>]
Before(call) ==
    [op |-> call.op, error |-> call.error, returned |-> call.returned,
     row |-> call.row, pre_row_ids |-> call.pre_row_ids,
     pre_sheet |-> call.pre_sheet]

\* no call yet.  pre_row_ids and pre_sheet are self.row_ids and the remote
\* sheet as the last call found them.
NoCall ==
    [op |-> "none", row_id |-> NoRowId, row |-> NoRow, bounds |-> <<>>,
     error |-> "", reqs |-> <<>>, row_number |-> -1, returned |-> NoRowId,
     yielded |-> NoRow, labels |-> <<>>, pre_row_ids |-> <<>>,
     pre_sheet |-> <<>>,
     args |-> [headers |-> 0, gid |-> 0, sheet |-> NoSheet], url |-> NoUrl,
     before |-> NoBefore]

\* the sheets at construction: a first row and whether the query endpoint
\* detects it as a header row
Layouts ==
    { [first |-> <<LabelXPadded, LabelY>>, parsed |-> 1],
      [first |-> <<LabelX, LabelY>>, parsed |-> 0],
      [first |-> <<EmptyStr, LabelY>>, parsed |-> 1] }

\* the URI of a spreadsheet opened in the browser: .../d/ID/edit#gid=0
BasePath == <<Slash, "spreadsheets", Slash, "d", Slash, "ID">>
EditUri ==
    [path |-> BasePath \o <<Slash, EditSeg>>, query |-> <<>>,
     fragment |-> GidPrefix \o <<"0">>]

\* __init__: the endpoint and the sheet id are taken from the URI, the schema
\* is resolved from the probe query, the map is empty
Init ==
    \E layout \in Layouts :
        LET resolved == _set_columns(QueryTable(layout.parsed, <<layout.first>>,
                                                ProbeSql))
        IN  /\ resolved.error = ""
            /\ probe = QueryTable(layout.parsed, <<layout.first>>, ProbeSql)
            /\ parsedNumHeaders = layout.parsed
            /\ sheet = <<layout.first>>
            /\ columns = resolved.columns
            /\ _column_map = resolved._column_map
            /\ _offset = resolved._offset
            /\ row_ids = <<>>
            /\ gen = NoGen
            /\ uri = EditUri
            /\ url = get_url(EditUri, 0, 0, NoSheet)
            /\ _sheet_id = _set_metadata(EditUri)._sheet_id
            /\ last = NoCall

\* no call is in progress: the caller has taken the outcome of the last one
Idle == last.op = "none"

Called(op) ==
    [NoCall EXCEPT !.op = op, !.pre_row_ids = row_ids, !.pre_sheet = sheet,
                   !.before = Before(last)]

\* get_data resolves the columns again, from the payload of its own query
CallGetData_resolving(bounds, err) ==
    /\ last.op = "none"
    /\ ~gen.active
    /\ \E out \in {get_data_run(columns, _column_map, _offset, parsedNumHeaders,
                                sheet, row_ids, bounds, err)},
          again \in {_set_columns(QueryTable(parsedNumHeaders, sheet,
                         build_sql(columns, bounds, _column_map, _offset).sql))} :
        /\ err => out.reqs # <<>>
        /\ gen' = out.gen
        /\ row_ids' = out.row_ids
        /\ last' = [NoCall EXCEPT
                        !.op = "get_data", !.pre_row_ids = row_ids,
                        !.pre_sheet = sheet,
                        !.bounds = bounds, !.error = out.error,
                        !.reqs = [k \in 1..Len(out.reqs) |->
                                     [req |-> out.reqs[k], error |-> err]],
                        !.yielded = out.yielded]
        /\ IF out.reqs # <<>> /\ ~err /\ again.error = ""
           THEN /\ columns' = again.columns
                /\ _column_map' = again._column_map
                /\ _offset' = again._offset
           ELSE UNCHANGED <<columns, _column_map, _offset>>
    /\ UNCHANGED <<address, probe, remote>>

\* next(get_data(bounds, order)): the generator runs to its first yield
CallGetData(bounds, err) ==
    /\ Idle
    /\ ~gen.active
    /\ \E out \in {get_data_run(columns, _column_map, _offset, parsedNumHeaders,
                                sheet, row_ids, bounds, err)} :
        /\ err => out.reqs # <<>>
        /\ gen' = out.gen
        /\ row_ids' = out.row_ids
        /\ last' = [Called("get_data") EXCEPT
                        !.bounds = bounds, !.error = out.error,
                        !.reqs = [k \in 1..Len(out.reqs) |-> Req(out.reqs[k], err)],
                        !.yielded = out.yielded]
    /\ UNCHANGED <<address, schema, remote>>

\* next() on the generator after a yield
ResumeGetData ==
    /\ Idle
    /\ gen.active
    /\ \E out \in {GenStep(gen, row_ids)} :
        /\ gen' = out.gen
        /\ row_ids' = out.row_ids
        /\ last' = [Called("next") EXCEPT !.yielded = out.yielded]
    /\ UNCHANGED <<address, schema, remote>>

\* the consumer drops the generator before it is exhausted
CloseGetData ==
    /\ Idle
    /\ gen.active
    /\ gen' = NoGen
    /\ last' = Called("close")
    /\ UNCHANGED <<address, schema, remote, row_ids>>

Effect(op, out, row) ==
    /\ row_ids' = out.row_ids
    /\ sheet' = out.sheet
    /\ last' = [Called(op) EXCEPT !.row_id = out.row_id, !.row = row,
                                  !.error = out.error, !.reqs = out.reqs,
                                  !.row_number = out.row_number,
                                  !.returned = out.returned]
    /\ UNCHANGED <<address, schema, parsedNumHeaders, gen>>

CallInsertData(row, err) ==
    /\ Idle
    /\ ~gen.active
    /\ \E out \in {insert_data(row_ids, sheet, columns, row, err)} :
        /\ out.row_id <= MaxId
        /\ Len(out.sheet) <= MaxRows + 1
        /\ Effect("insert_data", out, row)

\* fail: which response of the call carries an error payload (0: none); a
\* request the call does not issue has no response.  The call is made between
\* calls, or right after an insert_data with the identifier it returned.
CallDeleteData(row_id, fail) ==
    /\ \/ Idle
       \/ last.op = "insert_data" /\ last.error = "" /\ row_id = last.returned
    /\ ~gen.active
    /\ \E out \in {delete_data(row_ids, sheet, columns, row_id,
                               fail = 1, fail = 2)} :
        /\ fail <= Len(out.reqs)
        /\ Effect("delete_data", out, NoRow)

CallUpdateData(row_id, row, fail) ==
    /\ Idle
    /\ ~gen.active
    /\ \E out \in {update_data(row_ids, sheet, columns, row_id, row,
                               fail = 1, fail = 2)} :
        /\ fail <= Len(out.reqs)
        /\ Effect("update_data", out, row)

\* another editor of the sheet inserts a row above the data rows, or removes
\* the first data row
ExternalInsert(r) ==
    /\ Idle
    /\ ~gen.active
    /\ Len(sheet) <= MaxRows
    /\ sheet' = InsertRowAt(sheet, 2, r)
    /\ last' = Called("external")
    /\ UNCHANGED <<address, schema, parsedNumHeaders, row_ids, gen>>

ExternalDelete ==
    /\ Idle
    /\ ~gen.active
    /\ Len(sheet) >= 2
    /\ sheet' = DeleteRow(sheet, 1)
    /\ last' = Called("external")
    /\ UNCHANGED <<address, schema, parsedNumHeaders, row_ids, gen>>

\* the caller takes the outcome of the call: its return value, the row a
\* generator yielded, or the error raised
Return ==
    /\ ~Idle
    /\ last' = NoCall
    /\ UNCHANGED <<address, schema, remote, row_ids, gen>>

Next ==
    \/ \E bounds \in Bounds(columns), err \in BOOLEAN : CallGetData(bounds, err)
    \/ ResumeGetData
    \/ CloseGetData
    \/ \E row \in CallerRows(columns, Ids \cup {NoRowId}), err \in BOOLEAN :
           CallInsertData(row, err)
    \/ \E row_id \in Ids, fail \in 0..2 : CallDeleteData(row_id, fail)
    \/ \E row_id \in Ids, row \in CallerRows(columns, Ids), fail \in 0..2 :
           CallUpdateData(row_id, row, fail)
    \/ \E r \in DataRows : ExternalInsert(r)
    \/ ExternalDelete
    \/ Return

Spec == Init /\ [][Next]_vars

\* ------------------------------------------------ schema resolution alone

\* the labels and the cells of the first row a probe answer may hold
ProbeLabels == {EmptyStr, Blank, LabelX, LabelXPadded, LabelY}
ProbeCells ==
    {NullCell} \cup
    {Cell(v) : v \in {EmptyStr, LabelX, LabelXPadded, LabelY, NoneV, NumV}}

\* the error-free answers to "SELECT * LIMIT 1": NCols columns, and no row or
\* one row of at most NCols cells
ProbeResults ==
    {[cols |-> [k \in 1..NCols |-> [id |-> ColIds[k], label |-> labels[k]]],
      rows |-> rows] :
        labels \in [1..NCols -> ProbeLabels],
        rows \in {<<>>} \cup
                 {<<[c |-> cells]>> :
                     cells \in UNION {[1..n -> ProbeCells] : n \in 0..NCols}}}

\* __init__ up to the probe query: self._offset = 0, no columns yet
InitSchema ==
    /\ probe \in ProbeResults
    /\ parsedNumHeaders = 0
    /\ sheet = <<>>
    /\ columns = <<>>
    /\ _column_map = <<>>
    /\ _offset = 0
    /\ row_ids = <<>>
    /\ gen = NoGen
    /\ uri = EditUri
    /\ url = get_url(EditUri, 0, 0, NoSheet)
    /\ _sheet_id = _set_metadata(EditUri)._sheet_id
    /\ last = NoCall

\* the rest of _set_columns, on the answer of the probe
Construct ==
    /\ Idle
    /\ \E out \in {_set_columns(probe)} :
        /\ columns' = out.columns
        /\ _column_map' = out._column_map
        /\ _offset' = out._offset
        /\ last' = [NoCall EXCEPT !.op = "__init__", !.error = out.error,
                                  !.labels = out.labels]
    /\ UNCHANGED <<address, probe, remote, row_ids, gen>>

SpecSchema == InitSchema /\ [][Construct]_vars

\* ---------------------------------------------------------- addressing alone

\* most key/value pairs in the query string of a URI
MaxPairs == 2

UriPaths ==
    {BasePath \o <<Slash, EditSeg>>, BasePath \o <<Slash, EditSeg, Slash>>,
     BasePath, BasePath \o <<Slash>>}
QueryPairs ==
    {[key |-> KeyHeaders, value |-> <<"2">>],
     [key |-> KeyHeaders, value |-> <<"0">>],
     [key |-> KeyGid, value |-> <<"1">>],
     [key |-> KeyGid, value |-> <<"1", "2">>],
     [key |-> KeyGid, value |-> <<>>],
     [key |-> KeySheet, value |-> <<"S", " ", "1">>]}
UriQueries == UNION {[1..n -> QueryPairs] : n \in 0..MaxPairs}
UriFragments ==
    {<<>>, GidPrefix \o <<"7">>, GidPrefix \o <<"1">>, GidPrefix,
     <<"r", "=", "7">>}
Uris ==
    {[path |-> p, query |-> q, fragment |-> f] :
        p \in UriPaths, q \in UriQueries, f \in UriFragments}

\* before __init__ runs on the URI
InitUrl ==
    /\ uri \in Uris
    /\ url = NoUrl
    /\ _sheet_id = NoSheetId
    /\ probe = <<>>
    /\ parsedNumHeaders = 0
    /\ sheet = <<>>
    /\ columns = <<>>
    /\ _column_map = <<>>
    /\ _offset = 0
    /\ row_ids = <<>>
    /\ gen = NoGen
    /\ last = NoCall

\* get_url(uri, headers, gid, sheet), called on its own
CallGetUrl(headers, gid, sheet_name) ==
    /\ Idle
    /\ \E out \in {get_url(uri, headers, gid, sheet_name)} :
        last' = [NoCall EXCEPT
                    !.op = "get_url",
                    !.args = [headers |-> headers, gid |-> gid,
                              sheet |-> sheet_name],
                    !.error = out.error, !.url = out]
    /\ UNCHANGED <<address, schema, remote, row_ids, gen>>

\* __init__ up to the probe query: self.url = get_url(uri), then
\* _set_metadata(uri) stores the sheet id; a ValueError ends the construction
SetMetadata ==
    /\ Idle
    /\ \E out \in {get_url(uri, 0, 0, NoSheet)}, meta \in {_set_metadata(uri)} :
        /\ url' = IF out.error = "" THEN out ELSE url
        /\ _sheet_id' = IF out.error = "" /\ meta.error = ""
                        THEN meta._sheet_id ELSE _sheet_id
        /\ last' = [NoCall EXCEPT
                        !.op = "_set_metadata",
                        !.error = IF out.error # "" THEN out.error ELSE meta.error,
                        !.url = out]
    /\ UNCHANGED <<uri, schema, remote, row_ids, gen>>

NextUrl ==
    \/ \E headers \in {0, 1}, gid \in {0, 3}, sheet_name \in {NoSheet, <<"T">>} :
           CallGetUrl(headers, gid, sheet_name)
    \/ SetMetadata

SpecUrl == InitUrl /\ [][NextUrl]_vars

\* ------------------------------------------------------------- the claims

\* what the last call did, read from its record
Issued(name) == \E k \in 1..Len(last.reqs) : last.reqs[k].req = name
Failed(name) ==
    \E k \in 1..Len(last.reqs) : last.reqs[k].req = name /\ last.reqs[k].error
Succeeded(name) ==
    \E k \in 1..Len(last.reqs) : last.reqs[k].req = name /\ ~last.reqs[k].error
NoErrorPayload == \A k \in 1..Len(last.reqs) : ~last.reqs[k].error
Locating == last.op \in {"update_data", "delete_data"}
Mapped == last.row_id \in DOMAIN last.pre_row_ids
\* the last-known value tuple of the identifier, in schema column order
StoredValues == ValuesOf(columns, last.pre_row_ids[last.row_id])
\* the (1-based) positions of the freshly fetched rows equal to it
PreHits == {k \in 1..Len(last.pre_sheet) : last.pre_sheet[k] = StoredValues}

\* C1: delete_data removes the identifier from the identity map exactly when
\* the batchUpdate request returned no error payload, and then removes
\* nothing else; on every failing path the map is the map before the call.
C1_DeleteOnlyAfterRemoteSuccess ==
    last.op = "delete_data" =>
        /\ (Mapped /\ last.row_id \notin DOMAIN row_ids)
               <=> Succeeded(PostBatchUpdate)
        /\ Succeeded(PostBatchUpdate) =>
               /\ DOMAIN row_ids = DOMAIN last.pre_row_ids \ {last.row_id}
               /\ \A k \in DOMAIN row_ids : row_ids[k] = last.pre_row_ids[k]
        /\ ~Succeeded(PostBatchUpdate) => row_ids = last.pre_row_ids
        /\ (last.error # "") <=> ~Succeeded(PostBatchUpdate)

C1_Witness ==
    /\ last.op = "delete_data"
    /\ Succeeded(PostBatchUpdate)
    /\ Mapped
    /\ last.row_id \notin DOMAIN row_ids
    /\ DOMAIN row_ids # {}

\* C2: delete_data and update_data with an identifier that is no key of the
\* identity map raise, issue no request and leave the map (and the sheet)
\* as they were.
C2_UnknownIdNoRequest ==
    (Locating /\ ~Mapped) =>
        /\ last.error # ""
        /\ last.reqs = <<>>
        /\ row_ids = last.pre_row_ids
        /\ sheet = last.pre_sheet

C2_Witness ==
    /\ last.op = "update_data"
    /\ ~Mapped
    /\ last.pre_row_ids # <<>>
    /\ last.error = "Invalid row to update"

\* C3: the row update_data overwrites or delete_data deletes is the
\* lowest-index row of the freshly fetched values that equals the stored value
\* tuple, wherever the row was when it was read; and the call succeeds
\* whenever such a row exists and no response carries an error payload.
C3_FirstExactMatchIsTarget ==
    (Locating /\ Mapped) =>
        LET raw == last.pre_sheet
            n == last.row_number
        IN  /\ (Issued(PutValues) \/ Issued(PostBatchUpdate)) =>
                   /\ n \in 0..(Len(raw) - 1)
                   /\ raw[n + 1] = StoredValues
                   /\ \A j \in 1..n : raw[j] # StoredValues
            /\ (last.op = "update_data" /\ last.error = "") =>
                   /\ Len(sheet) = Len(raw)
                   /\ \A j \in 1..Len(raw) : j # n + 1 => sheet[j] = raw[j]
                   /\ SubSeq(sheet[n + 1], 1, Len(columns))
                          = ValuesOf(columns, last.row)
            /\ (last.op = "delete_data" /\ last.error = "") =>
                   /\ Len(sheet) = Len(raw) - 1
                   /\ \A j \in 1..n : sheet[j] = raw[j]
                   /\ \A j \in (n + 1)..Len(sheet) : sheet[j] = raw[j + 1]
            /\ (PreHits # {} /\ NoErrorPayload) => last.error = ""

\* a row registered by get_data as the row_id-th row of its result is found,
\* alone, above the place any read could have had it at
C3_Witness ==
    /\ last.op = "update_data"
    /\ last.error = ""
    /\ Mapped
    /\ ROWID \in DOMAIN last.pre_row_ids[last.row_id]
    /\ Cardinality(PreHits) = 1
    /\ last.row_number < last.row_id + 1
    /\ Len(columns) = NCols

\* C4: when the locate step of update_data or delete_data fails (the values
\* GET returns an error payload, or no fetched row equals the stored tuple)
\* the call raises, issues no PUT or POST, and leaves sheet and map alone.
C4_LocateFailureMutatesNothing ==
    (Locating /\ Mapped /\ (Failed(GetValues) \/ PreHits = {})) =>
        /\ last.error # ""
        /\ ~Issued(PutValues)
        /\ ~Issued(PostBatchUpdate)
        /\ ~Issued(PostAppend)
        /\ sheet = last.pre_sheet
        /\ row_ids = last.pre_row_ids

C4_Witness ==
    /\ last.op = "update_data"
    /\ Mapped
    /\ PreHits = {}
    /\ NoErrorPayload
    /\ last.error = "Could not find row"
    /\ Len(last.pre_sheet) > 1

C6_FailedInsertKeepsEntry ==
    (last.op = "insert_data" /\ Failed(PostAppend)) =>
        /\ last.error # ""
        /\ DOMAIN row_ids = DOMAIN last.pre_row_ids \cup {last.row_id}
        /\ row_ids[last.row_id] = Popped(last.row)
        /\ \A k \in DOMAIN last.pre_row_ids \ {last.row_id} :
               row_ids[k] = last.pre_row_ids[k]

C6_Witness ==
    /\ last.op = "insert_data"
    /\ Failed(PostAppend)
    /\ last.error # ""
    /\ last.row_id \notin DOMAIN last.pre_row_ids
    /\ last.row_id \in DOMAIN row_ids
    /\ sheet = last.pre_sheet

\* C7: after a successful update_data(row_id, row) the payload's identifier
\* maps to the payload without its identifier; row_id is no key any more when
\* the two differ, and the key set is unchanged when they are equal; every
\* entry under another key is unchanged.
C7_UpdateMigratesKey ==
    (last.op = "update_data" /\ last.error = "") =>
        LET old == last.row_id
            new == last.row[ROWID]
        IN  /\ new \in DOMAIN row_ids
            /\ row_ids[new] = Popped(last.row)
            /\ new # old => old \notin DOMAIN row_ids
            /\ new = old => DOMAIN row_ids = DOMAIN last.pre_row_ids
            /\ DOMAIN row_ids \subseteq DOMAIN last.pre_row_ids \cup {new}
            /\ \A k \in DOMAIN last.pre_row_ids \ {old, new} :
                   k \in DOMAIN row_ids /\ row_ids[k] = last.pre_row_ids[k]

C7_Witness ==
    /\ last.op = "update_data"
    /\ last.error = ""
    /\ last.row[ROWID] # last.row_id
    /\ last.row_id \notin DOMAIN row_ids
    /\ Cardinality(DOMAIN last.pre_row_ids) = 2

\* C8: when the bounds hold an impossible filter, get_data yields no row,
\* issues no request and leaves the identity map unchanged.
C8_ImpossibleFilterNoRequest ==
    (last.op = "get_data"
        /\ \E k \in 1..Len(last.bounds) : last.bounds[k].filter = Impossible) =>
        /\ last.yielded = NoRow
        /\ ~gen.active
        /\ last.error = ""
        /\ last.reqs = <<>>
        /\ row_ids = last.pre_row_ids

C8_Witness ==
    /\ last.op = "get_data"
    /\ \E k \in 1..Len(last.bounds) : last.bounds[k].filter = Impossible
    /\ last.reqs = <<>>
    /\ Len(sheet) > 1
    /\ row_ids # <<>>

\* C9: the k-th row a get_data call yields (k from 0) carries identifier k
\* and is, when yielded, what the identity map holds under k; once j rows are
\* taken the call has registered exactly the identifiers 0..j-1.
C9_YieldedRowsNumberedFromZero ==
    /\ (last.op \in {"get_data", "next"} /\ last.yielded # NoRow) =>
           LET k == gen.taken - 1
           IN  /\ gen.active
               /\ gen.taken \in 1..Len(gen.rows)
               /\ last.yielded[ROWID] = k
               /\ Popped(last.yielded) = gen.rows[gen.taken]
               /\ k \in DOMAIN row_ids
               /\ \A c \in DOMAIN last.yielded : row_ids[k][c] = last.yielded[c]
    /\ gen.active => gen.registered = 0..(gen.taken - 1)

C9_Witness ==
    /\ last.op = "next"
    /\ last.yielded # NoRow
    /\ gen.taken = 2
    /\ gen.registered = {0, 1}

\* C10: schema resolution on a probe answer whose labels are all empty takes
\* the cells of the returned row as the labels and sets the offset to 1, or,
\* without a row, takes the provider identifiers and leaves the offset 0;
\* with some label non-empty the returned labels are used and the offset is 0.
\* The exposed names are these labels, trimmed.
C10_LabelSourceAndOffset ==
    (last.op = "__init__" /\ last.error = "") =>
        LET cols == probe.cols
            rows == probe.rows
            allEmpty == \A k \in 1..Len(cols) : cols[k].label = EmptyStr
        IN  /\ Len(last.labels) = Len(cols)
            /\ (allEmpty /\ rows # <<>>) =>
                   /\ _offset = 1
                   /\ \A k \in 1..Len(cols) :
                          k <= Len(rows[1].c) => last.labels[k] = rows[1].c[k].v
            /\ (allEmpty /\ rows = <<>>) =>
                   /\ _offset = 0
                   /\ \A k \in 1..Len(cols) : last.labels[k] = cols[k].id
            /\ ~allEmpty =>
                   /\ _offset = 0
                   /\ \A k \in 1..Len(cols) : last.labels[k] = cols[k].label
            /\ DOMAIN _column_map = {strip(last.labels[k]) : k \in 1..Len(cols)}
            /\ {columns[k] : k \in 1..Len(columns)}
                   = {strip(last.labels[k]) : k \in 1..Len(cols)} \ {EmptyStr}

C10_Witness ==
    /\ last.op = "__init__"
    /\ last.error = ""
    /\ \A k \in 1..Len(probe.cols) : probe.cols[k].label = EmptyStr
    /\ probe.rows # <<>>
    /\ Len(probe.rows[1].c) = NCols
    /\ _offset = 1
    /\ columns = <<probe.rows[1].c[1].v, probe.rows[1].c[2].v>>

\* what the last get_url call was given and what it returned
UrlHas(key) == \E i \in 1..Len(last.url.params) : last.url.params[i].key = key
UrlValue(key) ==
    last.url.params[CHOOSE i \in 1..Len(last.url.params) :
                        last.url.params[i].key = key].value
QueryGives(key) ==
    \E i \in 1..Len(uri.query) :
        uri.query[i].key = key /\ uri.query[i].value # <<>>
QueryValue(key) ==
    uri.query[Max({i \in 1..Len(uri.query) :
                      uri.query[i].key = key /\ uri.query[i].value # <<>>})].value
FragmentGid == SubSeq(uri.fragment, Len(GidPrefix) + 1, Len(uri.fragment))

\* C11: a get_url call that returns gives a URL whose headers, gid and sheet
\* are those of the query string when it names them and the arguments'
\* otherwise, except that a fragment "gid=N" gives the gid; sheet is in the
\* URL and gid is not when a sheet name is given, and gid is otherwise;
\* headers is in it only when positive; the path is the URI's without a
\* trailing "/edit", with "/gviz/tq" appended; there is no fragment.
C11_GetUrlResolvesAddressing ==
    (last.op = "get_url" /\ last.error = "") =>
        LET out == last.url
            headers == IF QueryGives(KeyHeaders) THEN int(QueryValue(KeyHeaders))
                       ELSE last.args.headers
            sheet_name == IF QueryGives(KeySheet) THEN QueryValue(KeySheet)
                          ELSE last.args.sheet
            gid == IF startswith(uri.fragment, GidPrefix) THEN int(FragmentGid)
                   ELSE IF QueryGives(KeyGid) THEN int(QueryValue(KeyGid))
                   ELSE last.args.gid
        IN  /\ UrlHas(KeySheet) <=> sheet_name # NoSheet
            /\ UrlHas(KeyGid) <=> sheet_name = NoSheet
            /\ UrlHas(KeySheet) => UrlValue(KeySheet) = quote_plus(sheet_name)
            /\ UrlHas(KeyGid) => int(UrlValue(KeyGid)) = gid
            /\ UrlHas(KeyHeaders) <=> headers > 0
            /\ UrlHas(KeyHeaders) => int(UrlValue(KeyHeaders)) = headers
            /\ \A i, j \in 1..Len(out.params) :
                   out.params[i].key = out.params[j].key => i = j
            /\ out.fragment = <<>>
            /\ endswith(out.path, <<Slash>> \o GvizTq)
            /\ endswith(uri.path, <<Slash, EditSeg>>) =>
                   out.path = SubSeq(uri.path, 1, Len(uri.path) - 2)
                                  \o <<Slash>> \o GvizTq
            /\ ~endswith(uri.path, <<Slash, EditSeg>>) =>
                   out.path = rstrip_slash(uri.path) \o <<Slash>> \o GvizTq

\* .../d/ID/edit?gid=1#gid=7 resolves to gid=7 with no sheet and no headers
C11_Witness ==
    /\ last.op = "get_url"
    /\ last.error = ""
    /\ uri.path = BasePath \o <<Slash, EditSeg>>
    /\ uri.query = <<[key |-> KeyGid, value |-> <<"1">>]>>
    /\ uri.fragment = GidPrefix \o <<"7">>
    /\ last.args.gid = 3
    /\ last.url.path = BasePath \o <<Slash>> \o GvizTq
    /\ last.url.params = <<[key |-> KeyGid, value |-> <<"7">>]>>

\* C19: after construction on a URI that names no sheet, the gid in the URL
\* of the query endpoint is the sheet id stored in self._sheet_id, which
\* delete_data puts in its request.
C19_OneSheetAddressed ==
    (last.op = "_set_metadata" /\ last.error = "" /\ ~QueryGives(KeySheet)) =>
        /\ \E i \in 1..Len(url.params) : url.params[i].key = KeyGid
        /\ \A i \in 1..Len(url.params) :
               url.params[i].key = KeyGid => int(url.params[i].value) = _sheet_id

\* C12: every entry of the identity map is a row without the reserved key
\* "rowid": its keys are the columns of the schema.
C12_StoredRowsHaveNoRowId ==
    \A k \in DOMAIN row_ids :
        /\ ROWID \notin DOMAIN row_ids[k]
        /\ DOMAIN row_ids[k] \subseteq {columns[j] : j \in 1..Len(columns)}

\* C13: when the values PUT of update_data returns an error payload the call
\* raises and the identity map (and the sheet) is as before the call: the
\* old identifier maps to its old contents, the payload's is not added.
C13_FailedUpdateKeepsMap ==
    (last.op = "update_data" /\ Failed(PutValues)) =>
        /\ last.error # ""
        /\ row_ids = last.pre_row_ids
        /\ sheet = last.pre_sheet
        /\ last.row_id \in DOMAIN row_ids
        /\ last.row[ROWID] \notin DOMAIN last.pre_row_ids =>
               last.row[ROWID] \notin DOMAIN row_ids

C13_Witness ==
    /\ last.op = "update_data"
    /\ Failed(PutValues)
    /\ last.error # ""
    /\ last.row[ROWID] # last.row_id
    /\ last.row[ROWID] \notin DOMAIN row_ids
    /\ ValuesOf(columns, last.row) # StoredValues

\* the row of the sheet the last insert_data or update_data wrote (1-based)
Written ==
    IF last.op = "insert_data" THEN Len(sheet) ELSE last.row_number + 1

\* C14: the row insert_data appends or update_data overwrites holds, at the
\* physical position of each column of the schema, the value the caller gave
\* for that column.
C14_ValuesSentInPhysicalOrder ==
    (last.op \in {"insert_data", "update_data"} /\ last.error = "") =>
        \A j \in 1..Len(columns) :
            LET k == ColIndex(_column_map[columns[j]])
            IN  /\ k <= Len(sheet[Written])
                /\ sheet[Written][k] = last.row[columns[j]]

\* C15: after schema resolution no column whose trimmed label is empty is in
\* the exposed schema, and the identifier of every column of the probe answer
\* is the value of some entry of the label-to-identifier map.
C15_EmptyLabelsHiddenIdsKept ==
    (last.op = "__init__" /\ last.error = "") =>
        /\ \A j \in 1..Len(columns) : columns[j] # EmptyStr
        /\ \A k \in 1..Len(probe.cols) :
               strip(last.labels[k]) # EmptyStr =>
                   \E j \in 1..Len(columns) : columns[j] = strip(last.labels[k])
        /\ \A k \in 1..Len(probe.cols) :
               \E l \in DOMAIN _column_map : _column_map[l] = probe.cols[k].id

\* C16: schema resolution returns, without raising, on every error-free
\* answer to the probe.
C16_ResolutionNeverRaises ==
    last.op = "__init__" => last.error = ""

\* the values GET of the last call comes before its request at position k
FetchedBefore(k) ==
    \E j \in 1..(k - 1) : last.reqs[j].req = GetValues

\* C17 as stated: in every insert_data, update_data and delete_data call the
\* values GET precedes the append POST, the values PUT or the batchUpdate POST.
C17_EveryMutationRefetches ==
    last.op \in {"insert_data", "update_data", "delete_data"} =>
        \A k \in 1..Len(last.reqs) :
            last.reqs[k].req \in {PostAppend, PutValues, PostBatchUpdate} =>
                FetchedBefore(k)

\* C17, amended: in every update_data and delete_data call the values GET
\* precedes (and has succeeded before) the values PUT or the batchUpdate POST;
\* insert_data issues its append POST and no values GET.
C17_LocatingMutationsRefetch ==
    /\ Locating =>
           \A k \in 1..Len(last.reqs) :
               last.reqs[k].req \in {PutValues, PostBatchUpdate} =>
                   /\ FetchedBefore(k)
                   /\ \A j \in 1..(k - 1) : ~last.reqs[j].error
    /\ last.op = "insert_data" =>
           /\ Len(last.reqs) = 1
           /\ last.reqs[1].req = PostAppend

C17_Witness ==
    /\ last.op = "delete_data"
    /\ Len(last.reqs) = 2
    /\ last.reqs[1].req = GetValues
    /\ last.reqs[2].req = PostBatchUpdate
    /\ Len(sheet) < Len(last.pre_sheet)

\* C18: no get_data, insert_data, update_data or delete_data call, returning
\* or raising, changes the exposed columns, the label-to-identifier map or
\* the data row offset resolved at construction.
C18_CallsLeaveSchema ==
    [][/\ columns' = columns
       /\ _column_map' = _column_map
       /\ _offset' = _offset]_vars

\* a failed update on a sheet whose first row gave the labels
C18_Witness ==
    /\ last.op = "update_data"
    /\ last.error # ""
    /\ Issued(PutValues)
    /\ _offset = 1
    /\ columns = <<LabelX, LabelY>>
    /\ DOMAIN _column_map = {LabelX, LabelY}

\* the last call is a successful delete_data(k) made right after a successful
\* insert_data that returned k, of a row whose value tuple no row of the
\* sheet had
RoundTrip ==
    /\ last.op = "delete_data"
    /\ last.error = ""
    /\ last.before.op = "insert_data"
    /\ last.before.error = ""
    /\ last.row_id = last.before.returned
    /\ \A j \in 1..Len(last.before.pre_sheet) :
           last.before.pre_sheet[j] # ValuesOf(columns, Popped(last.before.row))

\* C20: such a delete_data deletes the appended row, and leaves the sheet and
\* the identity map as they were before the insert_data.
C20_InsertDeleteRoundTrip ==
    RoundTrip =>
        /\ last.row_number = Len(last.before.pre_sheet)
        /\ sheet = last.before.pre_sheet
        /\ row_ids = last.before.pre_row_ids

====
